---- MODULE Spec2Model ----
(***************************************************************************)
(* A model of cabal: the compact symmetric similarity table                *)
(* (ppm-table/src/lib.rs) and the incremental clique engine                *)
(* (cabal/src/clique.rs, cabal/src/cliques.rs).                            *)
(*                                                                         *)
(* Names are Rust Strings: finite sequences of characters (here small      *)
(* naturals) compared lexicographically.  Vec<T> is a TLA+ sequence; a     *)
(* Rust index i is position i + 1 of the sequence.  HashMap / HashSet are  *)
(* functions with a finite domain / sets; wherever the code depends on     *)
(* their iteration order the model chooses nondeterministically.           *)
(***************************************************************************)
EXTENDS Integers, Sequences, FiniteSets, TLC

\* ------------------------------------------------------------------ bounds
NumNames == 3       \* how many of the strings of NameList are used as names
MaxPpm == 1         \* scores range over 0..MaxPpm
MaxAdds == 4        \* add_ppm calls on one builder
MaxQueries == 1     \* get_ppm / edges calls on one built table
MaxEqAdds == 3      \* add_ppm calls when a second builder replays them
NumCliqueNames == 4 \* how many of the strings of NameList the clique set sees
MaxCliqueAdds == 4  \* Cliques::add calls on one clique set
MaxExportAdds == 3  \* Cliques::add calls on a clique set that is exported
MaxLines == 3       \* lines of an allpairs file
MaxSimilarity == 2  \* the largest --max-similarity main is run with
MaxSweepNames == 4  \* names of the table main sweeps
MaxFairNames == 3   \* the same where the end of the sweep is checked

\* "b", "a", "ab", "c", "ba", "aa" with a = 1, b = 2, c = 3
NameList == << <<2>>, <<1>>, <<1, 2>>, <<3>>, <<2, 1>>, <<1, 1>> >>
Names == {NameList[i] : i \in 1..NumNames}
CliqueNames == {NameList[i] : i \in 1..NumCliqueNames}
Ppms == 0..MaxPpm

\* ----------------------------------------------------------------- helpers
Range(s) == {s[i] : i \in 1..Len(s)}

\* An empty HashMap.
EmptyMap == [x \in {} |-> 0]

\* HashMap::insert(k, v)
MapPut(m, k, v) == [x \in (DOMAIN m) \cup {k} |-> IF x = k THEN v ELSE m[x]]

\* `<` of str: lexicographic order of the characters, a proper prefix first.
RECURSIVE StrLess(_, _)
StrLess(a, b) ==
    IF b = <<>> THEN FALSE
    ELSE IF a = <<>> THEN TRUE
    ELSE IF Head(a) # Head(b) THEN Head(a) < Head(b)
    ELSE StrLess(Tail(a), Tail(b))

\* let (l, r) = if l < r { (l, r) } else { (r, l) };
Canon(l, r) == IF StrLess(l, r) THEN <<l, r>> ELSE <<r, l>>

\* Vec::sort of a collection of distinct strings.
RECURSIVE SortStrs(_)
SortStrs(S) ==
    IF S = {} THEN <<>>
    ELSE LET m == CHOOSE x \in S : \A y \in S \ {x} : StrLess(x, y)
         IN  <<m>> \o SortStrs(S \ {m})

\* ------------------------------------------------------- PpmTableBuilder
\* PpmTableBuilder::new
NewBuilder == [keys |-> {}, ppms |-> EmptyMap]

\* add_ppm without `let (l, r) = if l < r ...`: the pair is stored as given.
add_ppm_as_given(b, l, r, ppm) ==
    LET inner == IF l \in DOMAIN b.ppms THEN b.ppms[l] ELSE EmptyMap
    IN  [keys |-> b.keys \cup {l, r},
         ppms |-> MapPut(b.ppms, l, MapPut(inner, r, ppm))]

\* add_ppm that keeps the score a pair already has (entry().or_insert).
add_ppm_keep_first(b, l0, r0, ppm) ==
    LET p == Canon(l0, r0)
        l == p[1]
        r == p[2]
        inner == IF l \in DOMAIN b.ppms THEN b.ppms[l] ELSE EmptyMap
        kept == IF r \in DOMAIN inner THEN inner[r] ELSE ppm
    IN  [keys |-> b.keys \cup {l, r},
         ppms |-> MapPut(b.ppms, l, MapPut(inner, r, kept))]

\* PpmTableBuilder::add_ppm
add_ppm(b, l0, r0, ppm) ==
    LET p == Canon(l0, r0)
        l == p[1]
        r == p[2]
        inner == IF l \in DOMAIN b.ppms THEN b.ppms[l] ELSE EmptyMap
    IN  [keys |-> b.keys \cup {l, r},
         ppms |-> MapPut(b.ppms, l, MapPut(inner, r, ppm))]

\* data_is_complete with `l <= r` for `l < r`: a self-pair must have a score.
data_is_complete_leq(b) ==
    \A l \in b.keys : \A r \in b.keys :
        (l = r \/ StrLess(l, r)) => (l \in DOMAIN b.ppms /\ r \in DOMAIN b.ppms[l])

\* data_is_complete without the inner `contains_key(r)` test.
data_is_complete_outer(b) ==
    \A l \in b.keys : \A r \in b.keys :
        StrLess(l, r) => l \in DOMAIN b.ppms

\* PpmTableBuilder::data_is_complete
data_is_complete(b) ==
    \A l \in b.keys : \A r \in b.keys :
        StrLess(l, r) => (l \in DOMAIN b.ppms /\ r \in DOMAIN b.ppms[l])

\* PpmTableBuilder::sorted_keys
sorted_keys(keys) == SortStrs(keys)

\* PpmTableBuilder::allocate_ppm_table
allocate_ppm_table(n) == [i \in 1..n |-> <<>>]

\* populate_ppm_table indexes ppms[l][r]: an absent key panics.
PopulatePanics(sk, ppms) ==
    \E i \in 1..Len(sk) : \E j \in 1..Len(sk) :
        i < j /\ ~(sk[i] \in DOMAIN ppms /\ sk[j] \in DOMAIN ppms[sk[i]])

\* populate_ppm_table reading the columns from the last to the first.
populate_ppm_table_rev(tab, sk, ppms) ==
    [i \in 1..Len(tab) |->
        tab[i] \o [d \in 1..(Len(sk) - i) |-> ppms[sk[i]][sk[Len(sk) + 1 - d]]]]

\* PpmTableBuilder::populate_ppm_table: row i receives, for j ascending,
\* ppms[l][r] of every j > i.
populate_ppm_table(tab, sk, ppms) ==
    [i \in 1..Len(tab) |->
        tab[i] \o [d \in 1..(Len(sk) - i) |-> ppms[sk[i]][sk[i + d]]]]

\* PpmTableBuilder::generate_ppm_table
generate_ppm_table(sk, ppms) ==
    populate_ppm_table(allocate_ppm_table(Len(sk)), sk, ppms)

\* BiHashMap::insert: a pair sharing its left or its right value is replaced.
BiInsert(bm, k, i) == {p \in bm : p[1] # k /\ p[2] # i} \cup {<<k, i>>}

\* PpmTableBuilder::indices_from_sorted_keys (indices are 0-based)
RECURSIVE IndicesFrom(_, _)
IndicesFrom(sk, n) ==
    IF n = 0 THEN {} ELSE BiInsert(IndicesFrom(sk, n - 1), sk[n], n - 1)

indices_from_sorted_keys(sk) == IndicesFrom(sk, Len(sk))

\* PpmTableBuilder::build, lines 103-108: the table of a complete builder
BuildTable(b) ==
    LET sk == sorted_keys(b.keys)
    IN  IF PopulatePanics(sk, b.ppms) THEN [tag |-> "Panic"]
        ELSE [tag |-> "Ok",
              table |-> [ppm_table |-> generate_ppm_table(sk, b.ppms),
                         indices |-> indices_from_sorted_keys(sk)]]

\* build returning a fresh builder, not self, in Err.
build_err_new(b) ==
    IF ~data_is_complete(b) THEN [tag |-> "Err", builder |-> NewBuilder]
    ELSE BuildTable(b)

\* PpmTableBuilder::build
build(b) ==
    IF ~data_is_complete(b) THEN [tag |-> "Err", builder |-> b]
    ELSE BuildTable(b)

\* --------------------------------------------------------------- PpmTable
\* BiHashMap::get_by_left / get_by_right
HasLeft(bm, k) == \E p \in bm : p[1] = k
get_by_left(bm, k) == (CHOOSE p \in bm : p[1] = k)[2]
HasRight(bm, i) == \E p \in bm : p[2] = i
get_by_right(bm, i) == (CHOOSE p \in bm : p[2] = i)[1]

USize == 2 ^ 30     \* stands for 2^64: far above every index of the model

\* table_indices_from_strs without `let (l, r) = if l < r ...`.
table_indices_as_given(t, l, r, mode) ==
    IF ~HasLeft(t.indices, l) THEN [tag |-> "None"]
    ELSE IF ~HasLeft(t.indices, r) THEN [tag |-> "None"]
    ELSE LET l_idx == get_by_left(t.indices, l)
             d == get_by_left(t.indices, r) - l_idx - 1
         IN  IF d < 0 /\ mode = "debug" THEN [tag |-> "Panic"]
             ELSE [tag |-> "Some", l_idx |-> l_idx, r_idx |-> d % USize]

\* PpmTable::table_indices_from_strs.  `r_idx - l_idx - 1` on usize: below
\* zero a debug build panics and a release build wraps around.
table_indices_from_strs(t, l0, r0, mode) ==
    LET p == Canon(l0, r0)
        l == p[1]
        r == p[2]
    IN  IF ~HasLeft(t.indices, l) THEN [tag |-> "None"]
        ELSE IF ~HasLeft(t.indices, r) THEN [tag |-> "None"]
        ELSE LET l_idx == get_by_left(t.indices, l)
                 d == get_by_left(t.indices, r) - l_idx - 1
             IN  IF d < 0 /\ mode = "debug" THEN [tag |-> "Panic"]
                 ELSE [tag |-> "Some", l_idx |-> l_idx, r_idx |-> d % USize]

\* PpmTable::get_ppm; indexing a Vec out of bounds panics.
get_ppm(t, l, r, mode) ==
    LET ix == table_indices_from_strs(t, l, r, mode)
    IN  IF ix.tag # "Some" THEN ix
        ELSE IF ix.l_idx + 1 > Len(t.ppm_table) THEN [tag |-> "Panic"]
        ELSE IF ix.r_idx + 1 > Len(t.ppm_table[ix.l_idx + 1]) THEN [tag |-> "Panic"]
        ELSE [tag |-> "Some", ppm |-> t.ppm_table[ix.l_idx + 1][ix.r_idx + 1]]

\* strs_from_table_indices with `r_idx + l_idx` for `r_idx + l_idx + 1`.
strs_from_table_indices_off(t, l_idx, r_idx) ==
    <<get_by_right(t.indices, l_idx), get_by_right(t.indices, r_idx + l_idx)>>

\* PpmTable::strs_from_table_indices panics (expect) on an unknown index.
StrsPanics(t, l_idx, r_idx) ==
    ~HasRight(t.indices, l_idx) \/ ~HasRight(t.indices, r_idx + l_idx + 1)

strs_from_table_indices(t, l_idx, r_idx) ==
    <<get_by_right(t.indices, l_idx), get_by_right(t.indices, r_idx + l_idx + 1)>>

\* The triples of row i (0-based), inner index ascending.
RowEdges(t, i) ==
    [d \in 1..Len(t.ppm_table[i + 1]) |->
        LET s == strs_from_table_indices(t, i, d - 1)
        IN  <<s[1], s[2], t.ppm_table[i + 1][d]>>]

RECURSIVE FlatRows(_, _)
FlatRows(t, n) == IF n = 0 THEN <<>> ELSE FlatRows(t, n - 1) \o RowEdges(t, n - 1)

\* PpmTable::edges, fully consumed: outer index ascending, inner ascending.
edges(t) ==
    IF \E i \in 1..Len(t.ppm_table) : \E d \in 1..Len(t.ppm_table[i]) :
           StrsPanics(t, i - 1, d - 1)
    THEN [tag |-> "Panic"]
    ELSE [tag |-> "Some", seq |-> FlatRows(t, Len(t.ppm_table))]

\* PartialEq for PpmTable: the HashSets of the two edge iterators are equal.
TableEq(t1, t2) == Range(edges(t1).seq) = Range(edges(t2).seq)

\* ----------------------------------------------------------------- Clique
\* `<=` of str
StrLeq(a, b) == a = b \/ StrLess(a, b)

\* An empty UnGraphMap (petgraph): the nodes and the edges are IndexMaps, kept
\* in insertion order; an edge is keyed by its endpoints, smaller first.
EmptyGraph == [nodes |-> <<>>, edges |-> <<>>]

NodeInsert(nodes, n) == IF n \in Range(nodes) THEN nodes ELSE Append(nodes, n)

\* UnGraphMap::add_edge, as Clique::add calls it: an edge already present
\* keeps its place and takes the new weight; a new edge is appended and its
\* endpoints become nodes, a before b.
GraphAddEdge(g, a, b, w) ==
    LET k == IF StrLeq(a, b) THEN <<a, b>> ELSE <<b, a>>
    IN  IF \E i \in 1..Len(g.edges) : g.edges[i][1] = k[1] /\ g.edges[i][2] = k[2]
        THEN [g EXCEPT !.edges =
                 [i \in 1..Len(g.edges) |->
                     IF g.edges[i][1] = k[1] /\ g.edges[i][2] = k[2]
                     THEN <<k[1], k[2], w>> ELSE g.edges[i]]]
        ELSE [nodes |-> NodeInsert(NodeInsert(g.nodes, a), b),
              edges |-> Append(g.edges, <<k[1], k[2], w>>)]

\* Clique::add
CliqueAdd(c, l, r, ppm) == [c EXCEPT !.members = GraphAddEdge(c.members, l, r, ppm)]

\* Clique::new
CliqueNew(l, r, ppm, id) == CliqueAdd([members |-> EmptyGraph, id |-> id], l, r, ppm)

\* Clique::contains
Contains(c, l) == l \in Range(c.members.nodes)

\* Clique::merge that absorbs nothing.
CliqueMergeNone(c, o) == c

\* Clique::merge: the other clique's edges are added in its all_edges() order.
RECURSIVE MergeEdges(_, _, _)
MergeEdges(c, es, n) ==
    IF n = 0 THEN c
    ELSE CliqueAdd(MergeEdges(c, es, n - 1), es[n][1], es[n][2], es[n][3])

CliqueMerge(c, o) == MergeEdges(c, o.members.edges, Len(o.members.edges))

\* The largest of a non-empty set of numbers (Iterator::max)
MaxOf(S) == CHOOSE m \in S : \A x \in S : x <= m

\* The weights of the edges of the graph at a node (UnGraphMap::edges(node))
IncidentPpms(c, node) ==
    {c.members.edges[i][3] : i \in {j \in 1..Len(c.members.edges) :
        c.members.edges[j][1] = node \/ c.members.edges[j][2] = node}}

\* Clique::core, lines 46-51: the largest weight at the node, 0 without edges
NodeMax(c, node) ==
    IF IncidentPpms(c, node) = {} THEN 0 ELSE MaxOf(IncidentPpms(c, node))

\* One turn of the loop of Clique::core with `node > old_node` in the tie.
CoreStepLast(acc, max, node) ==
    IF acc.some
    THEN IF max < acc.max \/ (max = acc.max /\ StrLess(acc.node, node))
         THEN [some |-> TRUE, max |-> max, node |-> node]
         ELSE acc
    ELSE [some |-> TRUE, max |-> max, node |-> node]

\* One turn of the loop of Clique::core, lines 53-64
CoreStep(acc, max, node) ==
    IF acc.some
    THEN IF max < acc.max \/ (max = acc.max /\ StrLess(node, acc.node))
         THEN [some |-> TRUE, max |-> max, node |-> node]
         ELSE acc
    ELSE [some |-> TRUE, max |-> max, node |-> node]

\* min_difference_and_key after the first n nodes, in members.nodes() order
RECURSIVE CoreFold(_, _)
CoreFold(c, n) ==
    IF n = 0 THEN [some |-> FALSE, max |-> 0, node |-> <<>>]
    ELSE CoreStep(CoreFold(c, n - 1),
                  NodeMax(c, c.members.nodes[n]), c.members.nodes[n])

\* Clique::core (a clique has a node: the unwrap succeeds)
core(c) == CoreFold(c, Len(c.members.nodes)).node

\* Clique::max_ppm
max_ppm(c) ==
    IF c.members.edges = <<>> THEN 0
    ELSE MaxOf({c.members.edges[i][3] : i \in 1..Len(c.members.edges)})

\* The nodes other than the core, in members.nodes() order
RECURSIVE FilterNot(_, _)
FilterNot(nodes, x) ==
    IF nodes = <<>> THEN <<>>
    ELSE IF Head(nodes) = x THEN FilterNot(Tail(nodes), x)
    ELSE <<Head(nodes)>> \o FilterNot(Tail(nodes), x)

\* Clique::export with the other members sorted.
CliqueExportSorted(c) ==
    [core |-> core(c),
     non_core_members |-> SortStrs(Range(c.members.nodes) \ {core(c)}),
     max_ppm |-> max_ppm(c)]

\* Clique::export
CliqueExport(c) ==
    [core |-> core(c),
     non_core_members |-> FilterNot(c.members.nodes, core(c)),
     max_ppm |-> max_ppm(c)]

\* ---------------------------------------------------------------- Cliques
None == -1

MapRemove(m, k) == [x \in (DOMAIN m) \ {k} |-> m[x]]

\* Cliques::new
CliquesNew(base) == [cliques |-> EmptyMap, base_id |-> base]

\* Cliques::find_id_of_clique_containing: the id of the first clique, in the
\* HashMap's iteration order, that contains the name; every clique that
\* contains it can be that first one.
find_id_of_clique_containing(cs, name) ==
    LET ids == {cs.cliques[k].id : k \in {x \in DOMAIN cs.cliques : Contains(cs.cliques[x], name)}}
    IN  IF ids = {} THEN {None} ELSE ids

\* Cliques::add without `self.cliques.remove(&rc)`: the right clique stays.
CliquesAddAtKeep(cs, lc, rc, l, r, ppm) ==
    IF lc # None /\ rc # None THEN
        IF lc # rc
        THEN LET left_clique ==
                     CliqueAdd(CliqueMerge(cs.cliques[lc], cs.cliques[rc]), l, r, ppm)
             IN  [cs EXCEPT !.cliques = MapPut(cs.cliques, lc, left_clique)]
        ELSE [cs EXCEPT !.cliques = MapPut(cs.cliques, lc, CliqueAdd(cs.cliques[lc], l, r, ppm))]
    ELSE IF lc # None
        THEN [cs EXCEPT !.cliques = MapPut(cs.cliques, lc, CliqueAdd(cs.cliques[lc], l, r, ppm))]
    ELSE IF rc # None
        THEN [cs EXCEPT !.cliques = MapPut(cs.cliques, rc, CliqueAdd(cs.cliques[rc], l, r, ppm))]
    ELSE [cliques |-> MapPut(cs.cliques, cs.base_id, CliqueNew(l, r, ppm, cs.base_id)),
          base_id |-> cs.base_id + 1]

\* Cliques::add, the both-found-different arm without `left_clique.add(l, r, ppm)`.
CliquesAddAtNoEdge(cs, lc, rc, l, r, ppm) ==
    IF lc # None /\ rc # None THEN
        IF lc # rc
        THEN LET right_clique == cs.cliques[rc]
                 rest == MapRemove(cs.cliques, rc)
             IN  [cs EXCEPT !.cliques = MapPut(rest, lc, CliqueMerge(rest[lc], right_clique))]
        ELSE [cs EXCEPT !.cliques = MapPut(cs.cliques, lc, CliqueAdd(cs.cliques[lc], l, r, ppm))]
    ELSE IF lc # None
        THEN [cs EXCEPT !.cliques = MapPut(cs.cliques, lc, CliqueAdd(cs.cliques[lc], l, r, ppm))]
    ELSE IF rc # None
        THEN [cs EXCEPT !.cliques = MapPut(cs.cliques, rc, CliqueAdd(cs.cliques[rc], l, r, ppm))]
    ELSE [cliques |-> MapPut(cs.cliques, cs.base_id, CliqueNew(l, r, ppm, cs.base_id)),
          base_id |-> cs.base_id + 1]

\* Cliques::add, once the two lookups have returned lc and rc
CliquesAddAt(cs, lc, rc, l, r, ppm) ==
    IF lc # None /\ rc # None THEN
        IF lc # rc
        THEN LET right_clique == cs.cliques[rc]
                 rest == MapRemove(cs.cliques, rc)
                 left_clique == CliqueAdd(CliqueMerge(rest[lc], right_clique), l, r, ppm)
             IN  [cs EXCEPT !.cliques = MapPut(rest, lc, left_clique)]
        ELSE [cs EXCEPT !.cliques = MapPut(cs.cliques, lc, CliqueAdd(cs.cliques[lc], l, r, ppm))]
    ELSE IF lc # None
        THEN [cs EXCEPT !.cliques = MapPut(cs.cliques, lc, CliqueAdd(cs.cliques[lc], l, r, ppm))]
    ELSE IF rc # None
        THEN [cs EXCEPT !.cliques = MapPut(cs.cliques, rc, CliqueAdd(cs.cliques[rc], l, r, ppm))]
    ELSE [cliques |-> MapPut(cs.cliques, cs.base_id, CliqueNew(l, r, ppm, cs.base_id)),
          base_id |-> cs.base_id + 1]

\* A clone that starts its identifiers again at 0.
CliquesCloneRestart(cs) == [cliques |-> cs.cliques, base_id |-> 0]

\* #[derive(Clone)] for Cliques: both fields are copied.
CliquesClone(cs) == [cliques |-> cs.cliques, base_id |-> cs.base_id]

\* The sequences that hold every element of the set S once
OrdersOf(S) ==
    {f \in [1..Cardinality(S) -> S] :
        \A i, j \in 1..Cardinality(S) : f[i] = f[j] => i = j}

\* CliqueExport::cmp_ppm is not Greater
ExportLeq(a, b) == a.max_ppm <= b.max_ppm

\* Cliques::merged_cliques, lines 77-86: for each member of the clique that a
\* clique of `other` contains, the id of the first such clique in iteration
\* order; the ids are collected in a HashSet.
MergedIdSets(oth, clique) ==
    LET found == {m \in Range(clique.members.nodes) :
                     find_id_of_clique_containing(oth, m) # {None}}
        ids == UNION {find_id_of_clique_containing(oth, m) : m \in found}
    IN  {{f[m] : m \in found} :
            f \in {g \in [found -> ids] :
                      \A m \in found : g[m] \in find_id_of_clique_containing(oth, m)}}

\* merged_cliques keeping the HashSet's order (no sort_by).
merged_cliques_unsorted(oth, clique) ==
    UNION {{[i \in 1..Len(o) |-> CliqueExport(oth.cliques[o[i]])] : o \in OrdersOf(ids)} :
              ids \in MergedIdSets(oth, clique)}

\* merged_cliques that also reports the cliques of `other` sharing no name.
merged_cliques_all(oth, clique) ==
    {[i \in 1..Len(o) |-> CliqueExport(oth.cliques[o[i]])] :
        o \in {q \in OrdersOf(DOMAIN oth.cliques) :
                  \A i, j \in 1..Len(q) :
                      i < j => ExportLeq(CliqueExport(oth.cliques[q[i]]),
                                         CliqueExport(oth.cliques[q[j]]))}}

\* Cliques::merged_cliques: the exports of those cliques, in the HashSet's
\* iteration order, then stably sorted by cmp_ppm: every order of them that
\* ascends in max_ppm can result.
merged_cliques(oth, clique) ==
    UNION {{[i \in 1..Len(o) |-> CliqueExport(oth.cliques[o[i]])] :
               o \in {q \in OrdersOf(ids) :
                         \A i, j \in 1..Len(q) :
                             i < j => ExportLeq(CliqueExport(oth.cliques[q[i]]),
                                                CliqueExport(oth.cliques[q[j]]))}} :
              ids \in MergedIdSets(oth, clique)}

\* added_members without the sort: the members in members.nodes() order.
RECURSIVE FilterUnknown(_, _)
FilterUnknown(nodes, oth) ==
    IF nodes = <<>> THEN <<>>
    ELSE IF \E k \in DOMAIN oth.cliques : Contains(oth.cliques[k], Head(nodes))
         THEN FilterUnknown(Tail(nodes), oth)
         ELSE <<Head(nodes)>> \o FilterUnknown(Tail(nodes), oth)

added_members_unsorted(oth, clique) == FilterUnknown(clique.members.nodes, oth)

\* Cliques::added_members
added_members(oth, clique) ==
    SortStrs({m \in Range(clique.members.nodes) :
                 ~\E k \in DOMAIN oth.cliques : Contains(oth.cliques[k], m)})

\* The CliquesExportElement of a clique, given its merged list (lines 53-64)
Element(oth, clique, merged) ==
    IF merged = <<>>
    THEN [kind |-> "New", clique |-> CliqueExport(clique),
          merged |-> <<>>, added |-> <<>>]
    ELSE [kind |-> "Old", clique |-> CliqueExport(clique),
          merged |-> merged, added |-> added_members(oth, clique)]

\* CliquesExportElement::cmp_ppm comparing only the cliques' max_ppm.
ElementLeqNoKind(a, b) == ExportLeq(a.clique, b.clique)

\* CliquesExportElement::cmp_ppm is not Greater
ElementLeq(a, b) ==
    IF a.kind = "New" /\ b.kind = "Old" THEN FALSE
    ELSE IF a.kind = "Old" /\ b.kind = "New" THEN TRUE
    ELSE ExportLeq(a.clique, b.clique)

\* Cliques::export: one element per clique, pushed in the HashMap's iteration
\* order, then stably sorted by cmp_ppm: every order that ascends can result.
CliquesExport(cs, oth) ==
    LET ks == DOMAIN cs.cliques
        lists == UNION {merged_cliques(oth, cs.cliques[k]) : k \in ks}
        choices == {f \in [ks -> lists] :
                       \A k \in ks : f[k] \in merged_cliques(oth, cs.cliques[k])}
    IN  UNION {{[i \in 1..Len(o) |-> Element(oth, cs.cliques[o[i]], f[o[i]])] :
                   o \in {q \in OrdersOf(ks) :
                             \A i, j \in 1..Len(q) :
                                 i < j => ElementLeq(Element(oth, cs.cliques[q[i]], f[q[i]]),
                                                     Element(oth, cs.cliques[q[j]], f[q[j]]))}} :
                  f \in choices}

\* --------------------------------------------------------- allpairs::load
\* A line of the file is the sequence of its fields, the maximal runs of
\* bytes other than spaces; a field is a sequence of bytes.
Space == 32

\* \d+ on ASCII bytes: a non-empty run of '0'..'9'
IsDigits(f) == f # <<>> /\ \A i \in 1..Len(f) : f[i] \in 48..57

\* The digits without their leading zeros
RECURSIVE StripZeros(_)
StripZeros(f) ==
    IF Len(f) > 1 /\ Head(f) = 48 THEN StripZeros(Tail(f)) ELSE f

\* u32::MAX, 4294967295, in decimal digits
U32MaxDigits == <<52, 50, 57, 52, 57, 54, 55, 50, 57, 53>>

\* Whether the decimal number fits a u32
FitsU32(f) ==
    LET d == StripZeros(f)
    IN  \/ Len(d) < Len(U32MaxDigits)
        \/ Len(d) = Len(U32MaxDigits) /\ (d = U32MaxDigits \/ StrLess(d, U32MaxDigits))

\* The value of a decimal number
RECURSIVE DecValue(_)
DecValue(f) ==
    IF f = <<>> THEN 0 ELSE 10 * DecValue(SubSeq(f, 1, Len(f) - 1)) + (f[Len(f)] - 48)

\* parse_ppm: str::parse::<u32> of the captured digits
parse_ppm(f) ==
    IF FitsU32(f) THEN [tag |-> "Ok", ppm |-> DecValue(StripZeros(f))]
    ELSE [tag |-> "Err", error |-> [kind |-> "PpmCaptureFail", arg |-> f]]

\* The fields from..to of the line, one space between two of them
RECURSIVE JoinFields(_, _, _)
JoinFields(line, from, to) ==
    IF from = to THEN line[from]
    ELSE JoinFields(line, from, to - 1) \o <<Space>> \o line[to]

\* ALLPAIRS_LINE_REGEX matches: four numbers, then at least two more fields.
\* The greedy l_path takes all the fields but the last, r_path the last.
LineMatches(line) ==
    Len(line) >= 6 /\ \A i \in 1..4 : IsDigits(line[i])

\* parse_line
parse_line(line) ==
    IF ~LineMatches(line)
    THEN [tag |-> "Err", error |-> [kind |-> "InvalidLine", arg |-> line]]
    ELSE LET ppm == parse_ppm(line[1])
         IN  IF ppm.tag = "Err" THEN ppm
             ELSE [tag |-> "Ok", ppm |-> ppm.ppm,
                   l |-> JoinFields(line, 5, Len(line) - 1),
                   r |-> line[Len(line)]]

\* ppm_table_builder.build().map_err(|_| LoadAllpairsError::IncompleteGraph)
BuildOrIncomplete(b) ==
    IF build(b).tag = "Err"
    THEN [tag |-> "Err", error |-> [kind |-> "IncompleteGraph", arg |-> <<>>]]
    ELSE build(b)

\* The loop of load_with_hasher from line i on, the builder being b
RECURSIVE LoadFrom(_, _, _)
LoadFrom(lines, i, b) ==
    IF i > Len(lines) THEN BuildOrIncomplete(b)
    ELSE LET p == parse_line(lines[i])
         IN  IF p.tag = "Err" THEN p
             ELSE LoadFrom(lines, i + 1, add_ppm(b, p.l, p.r, p.ppm))

\* The loop skipping the lines that do not parse (as captures_iter would).
RECURSIVE LoadFromSkipping(_, _, _)
LoadFromSkipping(lines, i, b) ==
    IF i > Len(lines) THEN BuildOrIncomplete(b)
    ELSE LET p == parse_line(lines[i])
         IN  IF p.tag = "Err" THEN LoadFromSkipping(lines, i + 1, b)
             ELSE LoadFromSkipping(lines, i + 1, add_ppm(b, p.l, p.r, p.ppm))

load_skipping(lines) == LoadFromSkipping(lines, 1, NewBuilder)

\* allpairs::load / load_with_hasher
load(lines) == LoadFrom(lines, 1, NewBuilder)

\* The lines the files of the model are made of
PathA == <<97>>
PathB == <<98>>
PathC == <<99>>
Zero == <<48>>
Seven == <<48, 55>>
Word == <<120>>
TooBig == <<52, 50, 57, 52, 57, 54, 55, 50, 57, 54>>
FarTooBig == <<49, 56, 52, 52, 54, 55, 52, 52, 48, 55, 51, 55, 48, 57, 53, 53, 49, 54, 49, 54>>

LoadLines ==
    {<<p, Zero, Zero, Zero, l, r>> :
        p \in {Zero, Seven}, l \in {PathA, PathB, PathC}, r \in {PathA, PathB, PathC}}
    \cup {<<>>,
          <<Zero, Zero, Zero, Zero, PathA>>,
          <<Word, Zero, Zero, Zero, PathA, PathB>>,
          <<Zero, Zero, Zero, Word, PathA, PathB>>,
          <<TooBig, Zero, Zero, Zero, PathA, PathB>>,
          <<FarTooBig, Zero, Zero, Zero, PathA, PathB>>,
          <<FarTooBig, Zero, Word, Zero, PathA, PathB>>,
          <<Seven, Zero, Zero, Zero, PathA, PathB, PathC>>}

\* ------------------------------------------------------------------- main
Step == 10000       \* the distance between two boundaries, in ppm
Slash == 47

\* id_from_path.captures(path).get(1) for the pattern ^[^/]+/(.+)/<handin>:
\* a first segment without '/', a '/', then the greedy group up to the last
\* "/<handin>" that leaves it a byte.  None where main's unwrap panics.
id_from_path(path, handin) ==
    LET slashes == {i \in 1..Len(path) : path[i] = Slash}
        first == IF slashes = {} THEN 0
                 ELSE CHOOSE i \in slashes : \A j \in slashes : i <= j
        ends == {j \in (first + 2)..(Len(path) - Len(handin)) :
                    path[j] = Slash /\ SubSeq(path, j + 1, j + Len(handin)) = handin}
    IN  IF first < 2 \/ ends = {} THEN [tag |-> "None"]
        ELSE [tag |-> "Some",
              id |-> SubSeq(path, first + 1, (CHOOSE j \in ends : \A k \in ends : k <= j) - 1)]

\* edges.sort_by_key(|e| e.2): a stable sort, the first of the smallest first
RECURSIVE SortByPpm(_)
SortByPpm(es) ==
    IF es = <<>> THEN <<>>
    ELSE LET i == CHOOSE k \in 1..Len(es) :
                      /\ \A j \in 1..Len(es) : es[k][3] <= es[j][3]
                      /\ \A j \in 1..(k - 1) : es[j][3] # es[k][3]
         IN  <<es[i]>> \o SortByPpm(SubSeq(es, 1, i - 1) \o SubSeq(es, i + 1, Len(es)))

\* The edges of es with a score of at most limit, in their order
RECURSIVE FilterLimit(_, _)
FilterLimit(es, limit) ==
    IF es = <<>> THEN <<>>
    ELSE IF Head(es)[3] <= limit THEN <<Head(es)>> \o FilterLimit(Tail(es), limit)
    ELSE FilterLimit(Tail(es), limit)

\* sorted_ppm_table_edges without the filter.
sorted_edges_unfiltered(table, ppm_limit) == SortByPpm(edges(table).seq)

\* sorted_ppm_table_edges (main, lines 60-67)
sorted_ppm_table_edges(table, ppm_limit) ==
    SortByPpm(FilterLimit(edges(table).seq, ppm_limit))

\* max_ppm += 5000.
next_max_ppm_half(m) == m + 5000

\* max_ppm += 10000
next_max_ppm(m) == m + Step

\* prev_cliques left as it was.
prev_cliques_kept(cliques, prev_cliques) == prev_cliques

\* prev_cliques = cliques.clone()
prev_cliques_cloned(cliques, prev_cliques) == CliquesClone(cliques)

\* The paths of the tables main is run on, and the handin file name
Handin == <<104>>
SweepPaths ==
    << <<100, Slash, 49, Slash, 104>>,
       <<100, Slash, 50, Slash, 104>>,
       <<100, Slash, 51, Slash, 104>>,
       <<100, Slash, 52, Slash, 104>>,
       <<101, Slash, 49, Slash, 104>>,
       <<100, Slash, 50, Slash, 103>> >>
SweepNameSets ==
    {{}, {SweepPaths[1], SweepPaths[2]},
     {SweepPaths[1], SweepPaths[2], SweepPaths[3]},
     {SweepPaths[1], SweepPaths[2], SweepPaths[3], SweepPaths[4]},
     {SweepPaths[1], SweepPaths[2], SweepPaths[5]},
     {SweepPaths[1], SweepPaths[2], SweepPaths[6]}}
SweepPpms == {0, Step, Step + 5000, 2 * Step + 5000}

\* The builders that received one add_ppm call for each pair of the names
CompleteBuilders(S) ==
    LET lefts == {l \in S : \E r \in S : StrLess(l, r)}
        rights(l) == {r \in S : StrLess(l, r)}
        pairs == {p \in S \X S : StrLess(p[1], p[2])}
    IN  {[keys |-> S, ppms |-> [l \in lefts |-> [r \in rights(l) |-> f[<<l, r>>]]]] :
            f \in [pairs -> SweepPpms]}

\* ============================================================ state
VARIABLES
    builder,    \* the PpmTableBuilder the caller holds: [keys, ppms]
    result,     \* what the last build() returned: None, Err(builder), Ok(table)
    got,        \* what the last get_ppm / edges call on the table returned
    queries,    \* history: how many get_ppm / edges calls were made
    calls,      \* history: the add_ppm calls made so far, <<l, r, ppm>> each
    pre,        \* history: the builder as it was when build() was last called
    failed,     \* history: the last failed build, [b: its builder, at: Len(calls)]
    other,      \* a second builder's build(), fed the same calls in another order
    replay,     \* history: the calls the second builder received, in its order
    cset,       \* a Cliques value: [cliques: id -> Clique, base_id]
    cadds,      \* history: the Cliques::add calls made so far, <<l, r, ppm>> each
    created,    \* history: the ids of the cliques created in cset, in order
    cloned,     \* history: how many cliques had been created when cset was
                \* replaced by a clone of itself, None before that
    prev,       \* the Cliques value cloned from cset at the last snapshot
    exported,   \* what cset.export(&prev) returned, if it was called
    sweep,      \* the locals of main during the threshold sweep, and its output
    file,       \* the lines of an allpairs file, each a sequence of fields
    loaded      \* what allpairs::load(file) returned, if it was called

tvars == <<builder, result, got, queries, calls, pre, failed>>
ovars == <<other, replay>>
cvars == <<cset, cadds, created, cloned, prev, exported>>
svars == <<sweep, file, loaded>>
vars == <<builder, result, got, queries, calls, pre, failed, other, replay,
          cset, cadds, created, cloned, prev, exported, sweep, file, loaded>>

NoResult == [tag |-> "None"]
NoFailure == [b |-> NewBuilder, at |-> -1]
NoQuery == [op |-> "none", l |-> <<>>, r |-> <<>>, out |-> NoResult]

\* main has not started a sweep
NoSweep == [pc |-> "idle"]

\* The builder a caller can go on with: the one build() handed back in Err,
\* else the one never built.
Holder == IF result.tag = "Err" THEN result.builder ELSE builder

\* The state before main or load has run
Idle ==
    /\ sweep = NoSweep
    /\ file = <<>>
    /\ loaded = NoResult

\* Fresh values of the builder and of the clique sets
Fresh ==
    /\ builder = NewBuilder
    /\ result = NoResult
    /\ got = NoQuery
    /\ queries = 0
    /\ calls = <<>>
    /\ pre = NewBuilder
    /\ failed = NoFailure
    /\ other = NoResult
    /\ replay = <<>>
    /\ cset = CliquesNew(0)
    /\ cadds = <<>>
    /\ created = <<>>
    /\ cloned = None
    /\ prev = CliquesNew(0)
    /\ exported = NoResult

Init == Fresh /\ Idle

\* ------------------------------------------------ the builder and its table
\* builder.add_ppm(l, r, ppm), at most max calls
AddPpmUpTo(l, r, ppm, max) ==
    /\ result.tag \in {"None", "Err"}
    /\ Len(calls) < max
    /\ builder' = add_ppm(Holder, l, r, ppm)
    /\ result' = NoResult
    /\ calls' = Append(calls, <<l, r, ppm>>)
    /\ UNCHANGED <<got, queries, pre, failed, ovars, cvars, svars>>

AddPpm(l, r, ppm) == AddPpmUpTo(l, r, ppm, MaxAdds)

\* builder.build(): the builder is moved into build() and comes back in Err.
Build ==
    /\ result.tag = "None"
    /\ result' = build(builder)
    /\ pre' = builder
    /\ failed' = IF result'.tag = "Err"
                 THEN [b |-> builder, at |-> Len(calls)] ELSE failed
    /\ UNCHANGED <<builder, got, queries, calls, ovars, cvars, svars>>

\* table.get_ppm(l, r) on the built table, in a debug or a release build
GetPpm(l, r, mode) ==
    /\ result.tag = "Ok"
    /\ queries < MaxQueries
    /\ queries' = queries + 1
    /\ got' = [op |-> "get_ppm", l |-> l, r |-> r,
               out |-> get_ppm(result.table, l, r, mode)]
    /\ UNCHANGED <<builder, result, calls, pre, failed, ovars, cvars, svars>>

\* table.edges().collect()
Edges ==
    /\ result.tag = "Ok"
    /\ queries < MaxQueries
    /\ queries' = queries + 1
    /\ got' = [op |-> "edges", l |-> <<>>, r |-> <<>>, out |-> edges(result.table)]
    /\ UNCHANGED <<builder, result, calls, pre, failed, ovars, cvars, svars>>

Next ==
    \/ \E l \in Names, r \in Names, ppm \in Ppms : AddPpm(l, r, ppm)
    \/ Build
    \/ \E l \in Names, r \in Names, mode \in {"debug", "release"} : GetPpm(l, r, mode)
    \/ Edges

Spec == Init /\ [][Next]_vars

\* ------------------------------------- two builders fed the same edges
Perms(n) == {f \in [1..n -> 1..n] : \A i, j \in 1..n : f[i] = f[j] => i = j}

\* The calls in the order perm, the names of call i swapped where flip[i].
Reordered(cs, perm, flip) ==
    [i \in 1..Len(cs) |->
        LET c == cs[perm[i]]
        IN  IF flip[i] THEN <<c[2], c[1], c[3]>> ELSE c]

\* A fresh builder after the add_ppm calls cs[1], ..., cs[n]
RECURSIVE FeedBuilder(_, _)
FeedBuilder(cs, n) ==
    IF n = 0 THEN NewBuilder
    ELSE add_ppm(FeedBuilder(cs, n - 1), cs[n][1], cs[n][2], cs[n][3])

EqAddPpm(l, r, ppm) == AddPpmUpTo(l, r, ppm, MaxEqAdds)

\* A second builder receives the same calls in another order and is built.
BuildOther(perm, flip) ==
    /\ result.tag # "None"
    /\ other.tag = "None"
    /\ replay' = Reordered(calls, perm, flip)
    /\ other' = build(FeedBuilder(replay', Len(calls)))
    /\ UNCHANGED <<tvars, cvars, svars>>

EqNext ==
    \/ \E l \in Names, r \in Names, ppm \in Ppms : EqAddPpm(l, r, ppm)
    \/ Build
    \/ \E perm \in Perms(Len(calls)), flip \in [1..Len(calls) -> BOOLEAN] :
           BuildOther(perm, flip)

SpecEq == Init /\ [][EqNext]_vars

\* ------------------------------------------------------- the clique set
\* The ids of cs2 that cs1 does not have, ascending
RECURSIVE SortNums(_)
SortNums(S) ==
    IF S = {} THEN <<>>
    ELSE LET m == CHOOSE x \in S : \A y \in S : x <= y
         IN  <<m>> \o SortNums(S \ {m})

NewIds(cs1, cs2) == SortNums((DOMAIN cs2.cliques) \ (DOMAIN cs1.cliques))

\* cliques.add(l, r, ppm), at most max calls, none after the export
CliquesAddUpTo(l, r, ppm, max) ==
    /\ Len(cadds) < max
    /\ exported.tag = "None"
    /\ \E lc \in find_id_of_clique_containing(cset, l),
          rc \in find_id_of_clique_containing(cset, r) :
           cset' = CliquesAddAt(cset, lc, rc, l, r, ppm)
    /\ cadds' = Append(cadds, <<l, r, ppm>>)
    /\ created' = created \o NewIds(cset, cset')
    /\ UNCHANGED <<svars, tvars, ovars, cloned, prev, exported>>

CliquesAdd(l, r, ppm) == CliquesAddUpTo(l, r, ppm, MaxCliqueAdds)

CNext ==
    \E l \in CliqueNames, r \in CliqueNames, ppm \in Ppms : CliquesAdd(l, r, ppm)

SpecCliques == Init /\ [][CNext]_vars

\* ------------------------------------------- a clique set and its clone
\* cliques = cliques.clone(): the clone goes on receiving the edges.
CloneSet ==
    /\ cloned = None
    /\ cset' = CliquesClone(cset)
    /\ cloned' = Len(created)
    /\ UNCHANGED <<svars, tvars, ovars, cadds, created, prev, exported>>

CloneNext ==
    \/ \E l \in CliqueNames, r \in CliqueNames, ppm \in Ppms : CliquesAdd(l, r, ppm)
    \/ CloneSet

SpecClone == Init /\ [][CloneNext]_vars

\* ------------------------------------- a clique set and an earlier snapshot
ExportAdd(l, r, ppm) == CliquesAddUpTo(l, r, ppm, MaxExportAdds)

\* prev_cliques = cliques.clone()   (main.rs, line 85)
Snapshot ==
    /\ exported.tag = "None"
    /\ prev # CliquesClone(cset)
    /\ prev' = CliquesClone(cset)
    /\ UNCHANGED <<svars, tvars, ovars, cset, cadds, created, cloned, exported>>

\* cliques.export(&prev_cliques)
Export ==
    /\ exported.tag = "None"
    /\ \E e \in CliquesExport(cset, prev) :
           exported' = [tag |-> "Some", cliques |-> e]
    /\ UNCHANGED <<svars, tvars, ovars, cset, cadds, created, cloned, prev>>

ExportNext ==
    \/ \E l \in CliqueNames, r \in CliqueNames, ppm \in Ppms : ExportAdd(l, r, ppm)
    \/ Snapshot
    \/ Export

SpecExport == Init /\ [][ExportNext]_vars

\* ------------------------------------------------------- an allpairs file
\* One more line in the file
FileLine(line) ==
    /\ loaded.tag = "None"
    /\ Len(file) < MaxLines
    /\ file' = Append(file, line)
    /\ UNCHANGED <<tvars, ovars, cvars, sweep, loaded>>

\* allpairs::load(file_contents)
Load ==
    /\ loaded.tag = "None"
    /\ loaded' = load(file)
    /\ UNCHANGED <<tvars, ovars, cvars, sweep, file>>

LoadNext ==
    \/ \E line \in LoadLines : FileLine(line)
    \/ Load

SpecLoad == Init /\ [][LoadNext]_vars

\* ------------------------------------------------ main: the threshold sweep
\* main after lines 51-71, run with --max-similarity ms on the table
SweepStart(table, ms) ==
    [pc |-> "for",
     table |-> table,
     max_similarity |-> ms,
     edges |-> sorted_ppm_table_edges(table, ms * Step),
     i |-> 1,
     l_id |-> <<>>,
     r_id |-> <<>>,
     max_ppm |-> 0,
     out |-> <<>>]

\* main starts on the built table of at most n names
SweepInitUpTo(n) ==
    /\ Fresh
    /\ file = <<>>
    /\ loaded = NoResult
    /\ \E S \in {T \in SweepNameSets : Cardinality(T) <= n}, ms \in 0..MaxSimilarity :
           \E b \in CompleteBuilders(S) : sweep = SweepStart(build(b).table, ms)

SweepInit == SweepInitUpTo(MaxSweepNames)

\* What main prints at a boundary: the boundary and the export; with them the
\* two clique sets and the number of add calls at that moment (history).
Emission(e) ==
    [boundary |-> sweep.max_ppm, export |-> e, cur |-> cset, prev |-> prev,
     adds |-> Len(cadds)]

\* The head of the for loop, lines 72-79: the ids of the next edge; a path
\* the pattern does not match panics.
SweepIds ==
    /\ sweep.pc = "for"
    /\ sweep.i <= Len(sweep.edges)
    /\ LET l == id_from_path(sweep.edges[sweep.i][1], Handin)
           r == id_from_path(sweep.edges[sweep.i][2], Handin)
       IN  sweep' = IF l.tag = "None" \/ r.tag = "None"
                    THEN [sweep EXCEPT !.pc = "panic"]
                    ELSE [sweep EXCEPT !.pc = "while", !.l_id = l.id, !.r_id = r.id]
    /\ UNCHANGED <<tvars, ovars, cvars, file, loaded>>

\* One turn of the while loop, lines 82-87
SweepEmit ==
    /\ sweep.pc = "while"
    /\ sweep.edges[sweep.i][3] > sweep.max_ppm
    /\ \E e \in CliquesExport(cset, prev) :
           sweep' = [sweep EXCEPT !.out = Append(@, Emission(e)),
                                  !.max_ppm = next_max_ppm(@)]
    /\ prev' = prev_cliques_cloned(cset, prev)
    /\ UNCHANGED <<tvars, ovars, cset, cadds, created, cloned, exported, file, loaded>>

\* cliques.add(l_id, r_id, ppm), line 88, and on to the next edge
SweepAdd ==
    /\ sweep.pc = "while"
    /\ ~(sweep.edges[sweep.i][3] > sweep.max_ppm)
    /\ \E lc \in find_id_of_clique_containing(cset, sweep.l_id),
          rc \in find_id_of_clique_containing(cset, sweep.r_id) :
           cset' = CliquesAddAt(cset, lc, rc, sweep.l_id, sweep.r_id,
                                sweep.edges[sweep.i][3])
    /\ cadds' = Append(cadds, <<sweep.l_id, sweep.r_id, sweep.edges[sweep.i][3]>>)
    /\ created' = created \o NewIds(cset, cset')
    /\ sweep' = [sweep EXCEPT !.pc = "for", !.i = @ + 1]
    /\ UNCHANGED <<tvars, ovars, cloned, prev, exported, file, loaded>>

\* After the loop, lines 90-93: the export of the last boundary
SweepLast ==
    /\ sweep.pc = "for"
    /\ sweep.i > Len(sweep.edges)
    /\ \E e \in CliquesExport(cset, prev) :
           sweep' = [sweep EXCEPT !.out = Append(@, Emission(e)), !.pc = "done"]
    /\ UNCHANGED <<tvars, ovars, cvars, file, loaded>>

SweepNext ==
    \/ SweepIds
    \/ SweepEmit
    \/ SweepAdd
    \/ SweepLast

SpecSweep == SweepInit /\ [][SweepNext]_vars

\* main runs to its end: one thread, no step of it waits for anything.
SpecSweepFair ==
    SweepInitUpTo(MaxFairNames) /\ [][SweepNext]_vars /\ WF_vars(SweepNext)

\* ================================================== history of the builder
\* The unordered pair of a call: a set of two names, or of one for a self-pair.
CallPair(c) == {c[1], c[2]}

\* Every name some add_ppm call mentioned
SeenNames == UNION {CallPair(calls[i]) : i \in 1..Len(calls)}

\* The unordered pairs of distinct names of S
PairsOf(S) == {{a, b} : a \in S, b \in S} \ {{a} : a \in S}

\* The unordered pairs add_ppm was called for
CalledPairs == {CallPair(calls[i]) : i \in 1..Len(calls)}

\* The calls made for the pair {l, r}, and the score of the last of them
CallsFor(l, r) == {i \in 1..Len(calls) : CallPair(calls[i]) = {l, r}}
LastPpm(l, r) ==
    calls[CHOOSE i \in CallsFor(l, r) : \A j \in CallsFor(l, r) : j <= i][3]

\* The pairs of distinct names of a builder that have no score in it
Missing(b) ==
    {pr \in PairsOf(b.keys) :
        \E l \in pr, r \in pr :
            StrLess(l, r) /\ ~(l \in DOMAIN b.ppms /\ r \in DOMAIN b.ppms[l])}

\* The pairs add_ppm was called for after the last failed build
SinceFailure == {CallPair(calls[i]) : i \in (failed.at + 1)..Len(calls)}

Modes == {"debug", "release"}

\* ------------------------------------------------------------------ claims
\* C1: whenever build() is called after add_ppm calls (any order, repeated
\* pairs and self-pairs included) that gave every unordered pair of distinct
\* names seen a score, it returns Ok with a table; the empty builder included.
C1_CompleteBuilds ==
    (result.tag # "None" /\ PairsOf(SeenNames) \subseteq CalledPairs)
        => result.tag = "Ok"

\* A table of three names built after four calls, one of them a self-pair.
C1_Witness ==
    /\ result.tag = "Ok"
    /\ Cardinality(SeenNames) = 3
    /\ Len(calls) = 4
    /\ \E i \in 1..Len(calls) : calls[i][1] = calls[i][2]

\* The empty builder builds.
C1_WitnessEmpty == result.tag = "Ok" /\ calls = <<>>

\* C2 as stated: for every name set of size n >= 2 and every pair of it, a
\* builder that received add_ppm for exactly the other pairs fails build().
C2_Original ==
    \A S \in SUBSET Names : \A pr \in PairsOf(S) :
        (Cardinality(S) >= 2 /\ result.tag # "None" /\ CalledPairs = PairsOf(S) \ {pr})
            => result.tag = "Err"

\* C2 amended: the same for every name set of size n >= 3 (with n = 2 no
\* add_ppm call is left, the builder is empty and builds).
C2_MissingPairFails ==
    \A S \in SUBSET Names : \A pr \in PairsOf(S) :
        (Cardinality(S) >= 3 /\ result.tag # "None" /\ CalledPairs = PairsOf(S) \ {pr})
            => result.tag = "Err"

\* build() failed on three names with exactly two of the three pairs added.
C2_Witness ==
    /\ result.tag = "Err"
    /\ Cardinality(SeenNames) = 3
    /\ Cardinality(CalledPairs) = 2
    /\ CalledPairs \subseteq PairsOf(SeenNames)

\* C3: a failed build() returns a builder equal to the one it was called on
\* (same keys, same ppms); and when add_ppm has then been called for exactly
\* the missing pairs, the next build() returns Ok with a table that holds
\* every score the failed builder held.
C3_FailedBuilderRetained ==
    /\ result.tag = "Err" =>
           (result.builder.keys = pre.keys /\ result.builder.ppms = pre.ppms)
    /\ (result.tag # "None" /\ failed.at >= 0 /\ SinceFailure = Missing(failed.b)) =>
           /\ result.tag = "Ok"
           /\ \A l \in failed.b.keys, r \in failed.b.keys, mode \in Modes :
                  (StrLess(l, r) /\ l \in DOMAIN failed.b.ppms
                       /\ r \in DOMAIN failed.b.ppms[l]) =>
                      get_ppm(result.table, l, r, mode) =
                          [tag |-> "Some", ppm |-> failed.b.ppms[l][r]]

\* A build failed with two scores held, its missing pair was added, and the
\* second build succeeded.
C3_Witness ==
    /\ result.tag = "Ok"
    /\ failed.at = 2
    /\ Missing(failed.b) # {}
    /\ SinceFailure = Missing(failed.b)

\* A failed build has just returned a builder holding a score.
C3_WitnessErr == result.tag = "Err" /\ result.builder.ppms # EmptyMap

\* C4: on every built table, get_ppm(a, b) and get_ppm(b, a) give the same
\* outcome for all names a, b.
C4_Symmetry ==
    result.tag = "Ok" =>
        \A a \in Names, b \in Names, mode \in Modes :
            get_ppm(result.table, a, b, mode) = get_ppm(result.table, b, a, mode)

\* get_ppm was called with the larger name first and returned a score.
C4_Witness ==
    /\ got.op = "get_ppm"
    /\ StrLess(got.r, got.l)
    /\ got.out.tag = "Some"

\* C5: when add_ppm was called several times for one unordered pair of
\* distinct names, in whichever order of the names, the built table holds the
\* score of the last such call for it and edges() yields the pair once.
C5_LastWriteWins ==
    result.tag = "Ok" =>
        \A l \in Names, r \in Names :
            (l # r /\ Cardinality(CallsFor(l, r)) >= 2) =>
                /\ \A mode \in Modes :
                       get_ppm(result.table, l, r, mode) =
                           [tag |-> "Some", ppm |-> LastPpm(l, r)]
                /\ edges(result.table).tag = "Some"
                /\ Cardinality({i \in 1..Len(edges(result.table).seq) :
                       {edges(result.table).seq[i][1],
                        edges(result.table).seq[i][2]} = {l, r}}) = 1

\* A pair was added twice, the names in the two orders and the scores
\* different, and the table was built.
C5_Witness ==
    /\ result.tag = "Ok"
    /\ \E i \in 1..Len(calls), j \in 1..Len(calls) :
           /\ i < j
           /\ calls[i][1] # calls[i][2]
           /\ calls[j][1] = calls[i][2]
           /\ calls[j][2] = calls[i][1]
           /\ calls[j][3] # calls[i][3]

\* C6: edges() of a built table yields n * (n - 1) / 2 triples, exactly one
\* for each unordered pair of distinct names, each with l < r and with the
\* score last added for the pair, which is also get_ppm(l, r).
C6_EdgesExact ==
    got.op = "edges" =>
        LET es == got.out
            n == Cardinality(SeenNames)
        IN  /\ es.tag = "Some"
            /\ 2 * Len(es.seq) = n * (n - 1)
            /\ \A pr \in PairsOf(SeenNames) :
                   Cardinality({i \in 1..Len(es.seq) :
                       {es.seq[i][1], es.seq[i][2]} = pr}) = 1
            /\ \A i \in 1..Len(es.seq) :
                   /\ StrLess(es.seq[i][1], es.seq[i][2])
                   /\ es.seq[i][3] = LastPpm(es.seq[i][1], es.seq[i][2])
                   /\ \A mode \in Modes :
                          get_ppm(result.table, es.seq[i][1], es.seq[i][2], mode) =
                              [tag |-> "Some", ppm |-> es.seq[i][3]]

\* edges() ran on a table of three names whose scores are not all equal.
C6_Witness ==
    /\ got.op = "edges"
    /\ got.out.tag = "Some"
    /\ Len(got.out.seq) = 3
    /\ \E i \in 1..3 : got.out.seq[i][3] # got.out.seq[1][3]

\* C7: when two builders received the same edges (one score per pair), the
\* second in a permutation of the first's order and with the names of any
\* pair swapped, their build() outcomes agree and the two tables are equal.
EdgeSet(cs) == {<<CallPair(cs[i]), cs[i][3]>> : i \in 1..Len(cs)}

SameEdgeSet ==
    /\ EdgeSet(replay) = EdgeSet(calls)
    /\ \A e \in EdgeSet(calls), f \in EdgeSet(calls) : e[1] = f[1] => e[2] = f[2]

C7_OrderIndependent ==
    (result.tag # "None" /\ other.tag # "None" /\ SameEdgeSet) =>
        /\ other.tag = result.tag
        /\ result.tag = "Ok" =>
               /\ TableEq(result.table, other.table)
               /\ TableEq(other.table, result.table)

\* Two tables of three names were built, the second builder fed in another
\* order and with a pair's names swapped.
C7_Witness ==
    /\ result.tag = "Ok"
    /\ other.tag = "Ok"
    /\ Len(calls) = 3
    /\ Cardinality(CalledPairs) = 3
    /\ replay[1] # calls[1]
    /\ \E i \in 1..3, j \in 1..3 :
           replay[i][1] = calls[j][2] /\ replay[i][2] = calls[j][1]
               /\ calls[j][1] # calls[j][2]

\* C8 as stated: a get_ppm(l, r) call on a built table returns not-found
\* exactly when l or r is not a name of the table, and the stored score for
\* any two names of the table.
C8_Claim ==
    got.op = "get_ppm" =>
        /\ got.out.tag = "None" <=> (got.l \notin SeenNames \/ got.r \notin SeenNames)
        /\ (got.l \in SeenNames /\ got.r \in SeenNames) =>
               /\ got.out.tag = "Some"
               /\ CallsFor(got.l, got.r) # {} => got.out.ppm = LastPpm(got.l, got.r)

\* What does hold: the same for two distinct names l and r.
C8_DistinctNames ==
    (got.op = "get_ppm" /\ got.l # got.r) =>
        /\ got.out.tag = "None" <=> (got.l \notin SeenNames \/ got.r \notin SeenNames)
        /\ (got.l \in SeenNames /\ got.r \in SeenNames) =>
               got.out = [tag |-> "Some", ppm |-> LastPpm(got.l, got.r)]

\* ================================================ history of the clique set
\* The names of clique k of the set
Members(k) == Range(cset.cliques[k].members.nodes)

\* The cliques of the set that contain the name
CliquesOf(name) == {k \in DOMAIN cset.cliques : name \in Members(k)}

\* The endpoints of the edges added so far
Endpoints == UNION {{cadds[i][1], cadds[i][2]} : i \in 1..Len(cadds)}

\* The names one added edge away from a name of S
Neighbours(S) ==
    {n \in CliqueNames : \E i \in 1..Len(cadds) :
        \/ cadds[i][1] \in S /\ cadds[i][2] = n
        \/ cadds[i][2] \in S /\ cadds[i][1] = n}

\* The names a path of added edges joins to a name of S
RECURSIVE Reach(_)
Reach(S) == IF Neighbours(S) \subseteq S THEN S ELSE Reach(S \cup Neighbours(S))

\* C9: after any Cliques::add calls, two names are in the same clique exactly
\* when a path of added edges joins them, and every endpoint of an added edge
\* is in some clique: the cliques are the connected components.
C9_ConnectedComponents ==
    /\ \A a \in CliqueNames :
           LET component == IF a \in Endpoints THEN Reach({a}) ELSE {}
           IN  \A b \in CliqueNames :
                   (\E k \in DOMAIN cset.cliques : a \in Members(k) /\ b \in Members(k))
                       <=> b \in component
    /\ \A a \in Endpoints : CliquesOf(a) # {}
    /\ \A k \in DOMAIN cset.cliques : Members(k) # {}

\* Two cliques of two names each were created and a third edge joined them.
C9_Witness ==
    /\ cset.base_id = 2
    /\ Cardinality(DOMAIN cset.cliques) = 1
    /\ \E k \in DOMAIN cset.cliques : Cardinality(Members(k)) = 4

\* C10: in every state Cliques::add calls reach, each name is a member of at
\* most one clique of the set.
C10_AtMostOneClique ==
    \A name \in CliqueNames : Cardinality(CliquesOf(name)) <= 1

\* Two cliques were merged and a fourth edge was then added inside the merged
\* clique.
C10_Witness ==
    /\ cset.base_id = 2
    /\ Cardinality(DOMAIN cset.cliques) = 1
    /\ Len(cadds) = 4
    /\ \E k \in DOMAIN cset.cliques :
           Cardinality(Members(k)) = 4 /\ Len(cset.cliques[k].members.edges) = 4

\* C11: in a clique set, also one that was cloned and whose clone went on
\* receiving edges, the identifiers of the cliques created are strictly
\* increasing in creation order and all below the next identifier to assign;
\* every clique of the set is keyed by the identifier it was created with. An
\* identifier that a merge retired is therefore never assigned again.
C11_IdsIncrease ==
    /\ \A i, j \in 1..Len(created) : i < j => created[i] < created[j]
    /\ \A i \in 1..Len(created) : created[i] < cset.base_id
    /\ DOMAIN cset.cliques \subseteq Range(created)
    /\ \A k \in DOMAIN cset.cliques : cset.cliques[k].id = k

\* A merge retired an identifier, the set was cloned after that, and the clone
\* created a clique.
C11_Witness ==
    /\ cloned # None
    /\ Len(created) > cloned
    /\ \E i \in 1..Len(created) : i <= cloned /\ created[i] \notin DOMAIN cset.cliques

\* The edges added so far, each with its endpoints in key order
AddedEdges == {<<Canon(cadds[i][1], cadds[i][2])[1], Canon(cadds[i][1], cadds[i][2])[2],
                 cadds[i][3]>> : i \in 1..Len(cadds)}

\* Each pair of names was added with one score only
OneScorePerPair ==
    \A e \in AddedEdges, f \in AddedEdges : (e[1] = f[1] /\ e[2] = f[2]) => e[3] = f[3]

\* The member set and the edge set of each clique of the set
Content(cs) ==
    {[members |-> Range(cs.cliques[k].members.nodes),
      edges |-> Range(cs.cliques[k].members.edges)] : k \in DOMAIN cs.cliques}

\* The same, computed from the set of added edges alone: one clique per
\* connected component, holding the edges added between its names.
ContentOf(added) ==
    {LET component == Reach({a})
     IN  [members |-> component,
          edges |-> {e \in added : e[1] \in component}] : a \in Endpoints}

\* C12: when a set of edges (each pair with one score) has been added to an
\* empty clique set, the member sets and the edge sets of the cliques are those
\* the set of edges determines, whatever the order of the calls was: two orders
\* of the same edges give cliques of identical members and edges.
C12_OrderIndependent ==
    OneScorePerPair => Content(cset) = ContentOf(AddedEdges)

\* Four names were joined by three edges into one clique, the last call
\* merging two cliques.
C12_Witness ==
    /\ OneScorePerPair
    /\ Len(created) = 2
    /\ Len(cadds) = 3
    /\ \E k \in DOMAIN cset.cliques :
           Cardinality(Members(k)) = 4 /\ Len(cset.cliques[k].members.edges) = 3

\* The largest score of the edges of the clique at the name
WorstAt(c, n) ==
    LET at == {e \in Range(c.members.edges) : e[1] = n \/ e[2] = n}
    IN  IF at = {} THEN 0 ELSE MaxOf({e[3] : e \in at})

\* C13: the core of every clique is a member whose largest incident score is
\* the smallest of all members', and of the members tied on that value it is
\* the lexicographically smallest; this names it from the sets of members and
\* of edges, so the order of the additions plays no part.
C13_CoreIsMinMax ==
    \A k \in DOMAIN cset.cliques :
        LET c == cset.cliques[k]
            m == core(c)
            least == WorstAt(c, m)
        IN  /\ m \in Members(k)
            /\ \A n \in Members(k) :
                   \/ least < WorstAt(c, n)
                   \/ least = WorstAt(c, n) /\ StrLeq(m, n)

\* A clique where two members tie on the smallest value, another member has a
\* larger one, and the core is not the first node of the graph.
C13_Witness ==
    \E k \in DOMAIN cset.cliques :
        LET c == cset.cliques[k]
        IN  /\ core(c) # c.members.nodes[1]
            /\ \E n \in Members(k) : n # core(c) /\ WorstAt(c, n) = WorstAt(c, core(c))
            /\ \E n \in Members(k) : WorstAt(c, n) > WorstAt(c, core(c))

\* C14: the export of every clique is its core, its other members in ascending
\* lexicographic order, and its largest score.
C14_Claim ==
    \A k \in DOMAIN cset.cliques :
        CliqueExport(cset.cliques[k]) = CliqueExportSorted(cset.cliques[k])

\* The scores of the add calls whose endpoints are both in the set of names
ScoresWithin(S) ==
    {cadds[i][3] : i \in {j \in 1..Len(cadds) : cadds[j][1] \in S /\ cadds[j][2] \in S}}

\* C15: the maximum score of every clique is the largest score of the add calls
\* made between its members.
C15_Claim ==
    \A k \in DOMAIN cset.cliques :
        max_ppm(cset.cliques[k]) = MaxOf(ScoresWithin(Members(k)))

\* The names of the clique an exported element reports
ElementNames(e) == {e.clique.core} \cup Range(e.clique.non_core_members)

\* The cliques of the previous set that share a name with the set of names
PrevSharing(S) ==
    {k \in DOMAIN prev.cliques : Range(prev.cliques[k].members.nodes) \cap S # {}}

\* The names that are in some clique of the previous set
PrevNames == UNION {Range(prev.cliques[k].members.nodes) : k \in DOMAIN prev.cliques}

\* The elements of the export that was made
Elements == IF exported.tag = "Some" THEN exported.cliques ELSE <<>>

\* C16: in cliques.export(&prev_cliques), the element of a clique is New
\* exactly when no clique of the previous set shares a name with it, and Old
\* otherwise.
C16_NewIffDisjoint ==
    \A i \in 1..Len(Elements) :
        /\ Elements[i].kind \in {"New", "Old"}
        /\ Elements[i].kind = "New" <=> PrevSharing(ElementNames(Elements[i])) = {}

\* An export that reports a clique the previous set knew and one it did not,
\* the previous set not being empty.
C16_Witness ==
    /\ \E i \in 1..Len(Elements) : Elements[i].kind = "New"
    /\ \E i \in 1..Len(Elements) : Elements[i].kind = "Old"

\* C17: for every Old element of the export, merged holds the export of each
\* previous clique that shares a name with the element's clique, each once and
\* nothing else, in ascending order of max_ppm.
C17_MergedExact ==
    \A i \in 1..Len(Elements) :
        Elements[i].kind = "Old" =>
            LET m == Elements[i].merged
                ks == PrevSharing(ElementNames(Elements[i]))
            IN  /\ Len(m) = Cardinality(ks)
                /\ Range(m) = {CliqueExport(prev.cliques[k]) : k \in ks}
                /\ \A a, b \in 1..Len(m) : a < b => m[a].max_ppm <= m[b].max_ppm

\* An Old element that merged two previous cliques of different max_ppm.
C17_Witness ==
    \E i \in 1..Len(Elements) :
        /\ Elements[i].kind = "Old"
        /\ Len(Elements[i].merged) = 2
        /\ Elements[i].merged[1].max_ppm < Elements[i].merged[2].max_ppm

\* C18: for every Old element of the export, added lists the names of the
\* clique that are in no clique of the previous set, each once, in ascending
\* lexicographic order.
C18_AddedExact ==
    \A i \in 1..Len(Elements) :
        Elements[i].kind = "Old" =>
            LET a == Elements[i].added
            IN  /\ Range(a) = ElementNames(Elements[i]) \ PrevNames
                /\ \A x, y \in 1..Len(a) : x < y => StrLess(a[x], a[y])

\* An Old element with two added names that joined the clique in descending
\* order.
C18_Witness ==
    \E i \in 1..Len(Elements), k \in DOMAIN cset.cliques :
        /\ Elements[i].kind = "Old"
        /\ Len(Elements[i].added) = 2
        /\ Members(k) = ElementNames(Elements[i])
        /\ \E x, y \in 1..Len(cset.cliques[k].members.nodes) :
               /\ x < y
               /\ cset.cliques[k].members.nodes[x] = Elements[i].added[2]
               /\ cset.cliques[k].members.nodes[y] = Elements[i].added[1]

\* C19: the export has one element per clique of the current set; every Old
\* element comes before every New element, and two elements of the same kind
\* are in ascending order of their clique's max_ppm.
C19_ElementOrder ==
    exported.tag = "Some" =>
        /\ Len(Elements) = Cardinality(DOMAIN cset.cliques)
        /\ {ElementNames(Elements[i]) : i \in 1..Len(Elements)}
               = {Members(k) : k \in DOMAIN cset.cliques}
        /\ \A i, j \in 1..Len(Elements) :
               i < j =>
                   /\ ~(Elements[i].kind = "New" /\ Elements[j].kind = "Old")
                   /\ Elements[i].kind = Elements[j].kind =>
                          Elements[i].clique.max_ppm <= Elements[j].clique.max_ppm

\* An export of three cliques: an Old element of max_ppm 1, then two New ones
\* of different max_ppm.
C19_Witness ==
    /\ Len(Elements) = 3
    /\ Elements[1].kind = "Old" /\ Elements[1].clique.max_ppm = 1
    /\ Elements[2].kind = "New" /\ Elements[2].clique.max_ppm = 0
    /\ Elements[3].kind = "New" /\ Elements[3].clique.max_ppm = 1

\* C20: the export is the one value the contents of the two sets determine:
\* whatever order the maps are iterated in, export returns what it returned.
C20_Claim ==
    exported.tag = "Some" =>
        \A e \in CliquesExport(cset, prev) : e = exported.cliques

\* C25: on a built table every position of the matrix maps to two names of
\* the bijection, and neither edges() nor any get_ppm(l, r) call panics.
C25_Claim ==
    /\ result.tag = "Ok" =>
           \A i \in 1..Len(result.table.ppm_table) :
               \A d \in 1..Len(result.table.ppm_table[i]) :
                   ~StrsPanics(result.table, i - 1, d - 1)
    /\ got.op \in {"get_ppm", "edges"} => got.out.tag \in {"Some", "None"}

\* Some clique of the set contains both names
SameClique(cs, a, b) ==
    \E k \in DOMAIN cs.cliques : Contains(cs.cliques[k], a) /\ Contains(cs.cliques[k], b)

\* C26: every Cliques::add call leaves two names that shared a clique in one
\* clique, and a name that was in a clique (a = b) in some clique: no clique
\* is split and no member is lost.
C26_NeverSplit ==
    [][\A a \in CliqueNames, b \in CliqueNames :
           SameClique(cset, a, b) => SameClique(cset', a, b)]_vars

\* The first call joined two names; later calls created a second clique and
\* merged it with theirs, and the two names still share the clique.
C26_Witness ==
    /\ Len(cadds) = 4
    /\ created = <<0, 1>>
    /\ Cardinality(DOMAIN cset.cliques) = 1
    /\ cadds[1][1] # cadds[1][2]
    /\ SameClique(cset, cadds[1][1], cadds[1][2])

\* C27: a Cliques::add(l, r, s) call leaves every clique that contains neither
\* l nor r as it was; when l and r were in two different cliques, the clique
\* of l keeps its identifier and holds the members of both, the identifier of
\* the clique of r is gone, and the set has one clique fewer.
C27_MergeFrame ==
    [][cadds' # cadds =>
          LET l == cadds'[Len(cadds')][1]
              r == cadds'[Len(cadds')][2]
          IN  /\ \A k \in DOMAIN cset.cliques :
                     (l \notin Members(k) /\ r \notin Members(k)) =>
                         /\ k \in DOMAIN cset'.cliques
                         /\ cset'.cliques[k] = cset.cliques[k]
              /\ \A lc \in CliquesOf(l), rc \in CliquesOf(r) :
                     lc # rc =>
                         /\ lc \in DOMAIN cset'.cliques
                         /\ rc \notin DOMAIN cset'.cliques
                         /\ cset'.cliques[lc].id = lc
                         /\ Range(cset'.cliques[lc].members.nodes)
                                = Members(lc) \cup Members(rc)
                         /\ Cardinality(DOMAIN cset'.cliques)
                                = Cardinality(DOMAIN cset.cliques) - 1]_vars

\* The third call joined the cliques 1 and 0, its left name in clique 1: the
\* merged clique is clique 1 and clique 0 is gone.
C27_Witness ==
    /\ Len(cadds) = 3
    /\ created = <<0, 1>>
    /\ DOMAIN cset.cliques = {1}
    /\ Cardinality(Members(1)) = 4

\* The lines of the file that parse_line rejects
BadLines == {i \in 1..Len(file) : parse_line(file[i]).tag = "Err"}

\* The names on the lines of the file, and the lines of a pair of names
FileNames == UNION {{parse_line(file[i]).l, parse_line(file[i]).r} : i \in 1..Len(file)}
LinesFor(a, b) ==
    {i \in 1..Len(file) : {parse_line(file[i]).l, parse_line(file[i]).r} = {a, b}}

\* Two different names of the file without a line of their own
FileIncomplete == \E a \in FileNames, b \in FileNames : a # b /\ LinesFor(a, b) = {}

\* The errors come first, as the claim has them: the error of the first line
\* that fails to parse, else IncompleteGraph when a pair has no score.
LoadErrors ==
    IF BadLines # {}
    THEN loaded = parse_line(file[CHOOSE i \in BadLines : \A j \in BadLines : i <= j])
    ELSE IF FileIncomplete
    THEN loaded = [tag |-> "Err", error |-> [kind |-> "IncompleteGraph", arg |-> <<>>]]
    ELSE loaded.tag = "Ok"

\* C24 as stated: the errors as above, and otherwise a table that holds the
\* pair of each line with the score of that line.
C24_Original ==
    loaded.tag # "None" =>
        /\ LoadErrors
        /\ loaded.tag = "Ok" =>
               \A i \in 1..Len(file) :
                   LET p == parse_line(file[i])
                   IN  <<Canon(p.l, p.r)[1], Canon(p.l, p.r)[2], p.ppm>>
                           \in Range(edges(loaded.table).seq)

\* C24, amended: load returns the error of the first line that fails to parse
\* (InvalidLine or PpmCaptureFail), else IncompleteGraph when two different
\* names of the file have no line, else a table whose names are the names of
\* the file and whose edges are the pairs of different names, each once, with
\* the score of the last line of the pair.
C24_LoadOutcome ==
    loaded.tag # "None" =>
        /\ LoadErrors
        /\ loaded.tag = "Err" => loaded.error.kind \in {"InvalidLine", "PpmCaptureFail", "IncompleteGraph"}
        /\ loaded.tag = "Ok" =>
               /\ edges(loaded.table).tag = "Some"
               /\ {p[1] : p \in loaded.table.indices} = FileNames
               /\ Range(edges(loaded.table).seq) =
                      {<<Canon(a, b)[1], Canon(a, b)[2],
                         parse_line(file[CHOOSE i \in LinesFor(a, b) :
                                             \A j \in LinesFor(a, b) : j <= i]).ppm>> :
                          <<a, b>> \in {q \in FileNames \X FileNames : q[1] # q[2]}}
               /\ Len(edges(loaded.table).seq) =
                      Cardinality(Range(edges(loaded.table).seq))

\* A file of three lines that all parse, two of them for the same pair with
\* different scores, was loaded into a table.
C24_Witness ==
    /\ loaded.tag = "Ok"
    /\ Len(file) = 3
    /\ \E i, j \in 1..3 :
           /\ i < j
           /\ LinesFor(parse_line(file[i]).l, parse_line(file[i]).r)
                  = LinesFor(parse_line(file[j]).l, parse_line(file[j]).r)
           /\ parse_line(file[i]).l # parse_line(file[i]).r
           /\ parse_line(file[i]).ppm # parse_line(file[j]).ppm

\* Other cases of C24 that are reached: each kind of error.
C24_WitnessInvalid ==
    /\ loaded.tag = "Err" /\ loaded.error.kind = "InvalidLine"
    /\ Len(file) = 3 /\ BadLines = {2, 3}
C24_WitnessPpm ==
    /\ loaded.tag = "Err" /\ loaded.error.kind = "PpmCaptureFail"
    /\ Len(file) = 3 /\ BadLines = {3}
C24_WitnessIncomplete ==
    /\ loaded.tag = "Err" /\ loaded.error.kind = "IncompleteGraph"
    /\ Len(file) = 2

\* ==================================================== history of the sweep
\* The maximum requested score, the edges of the table and the id of a path
Limit == sweep.max_similarity * Step
TableEdges == edges(sweep.table).seq
IdOf(path) == id_from_path(path, Handin).id
IdEdge(e) == <<IdOf(e[1]), IdOf(e[2]), e[3]>>

\* The edges of the table with a score of at most b
EdgesUpTo(b) == {j \in 1..Len(TableEdges) : TableEdges[j][3] <= b}

\* The boundaries emitted so far, in order
Boundaries == [k \in 1..Len(sweep.out) |-> sweep.out[k].boundary]

\* C21: when the export of a boundary B is emitted, the clique set has
\* received one add call for each edge of the table with a score of at most
\* B and no other call; no call ever carries a score above the maximum
\* requested score.
C21_ExactEdges ==
    /\ \A i \in 1..Len(cadds) : cadds[i][3] <= Limit
    /\ \A k \in 1..Len(sweep.out) :
           LET o == sweep.out[k]
               below == EdgesUpTo(o.boundary)
           IN  /\ o.adds = Cardinality(below)
               /\ {cadds[i] : i \in 1..o.adds} = {IdEdge(TableEdges[j]) : j \in below}
               /\ \A j \in below :
                      Cardinality({i \in 1..o.adds : cadds[i] = IdEdge(TableEdges[j])})
                          = Cardinality({h \in below :
                                IdEdge(TableEdges[h]) = IdEdge(TableEdges[j])})

\* A finished sweep of three boundaries, with edges added before the first
\* export and between the first and the second, and an edge of the table
\* above the maximum that was never added.
C21_Witness ==
    /\ sweep.pc = "done"
    /\ Len(sweep.out) = 3
    /\ 0 < sweep.out[1].adds
    /\ sweep.out[1].adds < sweep.out[2].adds
    /\ \E j \in 1..Len(TableEdges) : TableEdges[j][3] > Limit

\* C22: a finished sweep has emitted the boundaries 0, Step, ..., up to the
\* maximum requested score, each once and in this order.
C22_Claim ==
    sweep.pc = "done" =>
        Boundaries = [k \in 1..(sweep.max_similarity + 1) |-> (k - 1) * Step]

\* C23: the previous set of the first export is the empty set, the previous
\* set of every later export is the current set as it was at the export
\* before; between two exports prev_cliques stays that set while edges are
\* added to the current one.
C23_PrevIsLastSnapshot ==
    /\ \A k \in 1..Len(sweep.out) :
           sweep.out[k].prev =
               IF k = 1 THEN CliquesNew(0) ELSE sweep.out[k - 1].cur
    /\ prev = IF sweep.out = <<>> THEN CliquesNew(0)
              ELSE IF sweep.pc = "done" THEN sweep.out[Len(sweep.out)].prev
              ELSE sweep.out[Len(sweep.out)].cur

\* A third export whose previous set is not empty and differs from the
\* current one: edges were added after the snapshot was taken.
C23_Witness ==
    /\ Len(sweep.out) = 3
    /\ sweep.out[3].prev.cliques # EmptyMap
    /\ sweep.out[3].prev # sweep.out[3].cur
    /\ sweep.out[2].prev # sweep.out[2].cur

\* The names of a clique set, of one of its cliques, of an exported clique
NodesOf(cs, k) == Range(cs.cliques[k].members.nodes)
ExportNames(x) == {x.core} \cup Range(x.non_core_members)

\* The names first added between the export before export k and export k
FoldedIn(k) ==
    LET from == IF k = 1 THEN 0 ELSE sweep.out[k - 1].adds
        upto == sweep.out[k].adds
    IN  UNION {{cadds[i][1], cadds[i][2]} : i \in (from + 1)..upto}
            \ UNION {{cadds[i][1], cadds[i][2]} : i \in 1..from}

\* C28: at every export of the sweep each clique of the previous set is
\* inside exactly one clique of the current set; the members of an Old
\* element's clique are the members of its merged cliques and its added
\* names, and added is the names of the clique first added since the export
\* before.
C28_OldFromPrevious ==
    \A k \in 1..Len(sweep.out) :
        LET o == sweep.out[k]
        IN  /\ \A p \in DOMAIN o.prev.cliques :
                   Cardinality({c \in DOMAIN o.cur.cliques :
                                   NodesOf(o.prev, p) \subseteq NodesOf(o.cur, c)}) = 1
            /\ \A i \in 1..Len(o.export) :
                   o.export[i].kind = "Old" =>
                       /\ ElementNames(o.export[i]) =
                              UNION {ExportNames(m) : m \in Range(o.export[i].merged)}
                                  \cup Range(o.export[i].added)
                       /\ Range(o.export[i].added) =
                              ElementNames(o.export[i]) \cap FoldedIn(k)

\* A finished sweep whose second export has an Old element with an added
\* name.
C28_Witness ==
    /\ sweep.pc = "done"
    /\ Len(sweep.out) >= 2
    /\ \E i \in 1..Len(sweep.out[2].export) :
           sweep.out[2].export[i].kind = "Old" /\ sweep.out[2].export[i].added # <<>>

\* A finished sweep with an Old element that merged two cliques of the
\* previous set.
C28_WitnessMerged ==
    /\ sweep.pc = "done"
    /\ \E k \in 1..Len(sweep.out) : \E i \in 1..Len(sweep.out[k].export) :
           sweep.out[k].export[i].kind = "Old" /\ Len(sweep.out[k].export[i].merged) = 2

\* C29: every run of the sweep comes to its end, and every boundary it emits
\* is a multiple of Step from 0 to the maximum requested score.
C29_Terminates ==
    /\ <>(sweep.pc \in {"done", "panic"})
    /\ [](\A k \in 1..Len(sweep.out) :
              /\ sweep.out[k].boundary % Step = 0
              /\ 0 <= sweep.out[k].boundary
              /\ sweep.out[k].boundary <= Limit)

\* A sweep that ended after the boundaries 0, Step and 2 * Step.
C29_Witness ==
    /\ sweep.pc = "done"
    /\ Boundaries = <<0, Step, 2 * Step>>

\* A sweep that ended in the panic of the id lookup, after an export.
C29_WitnessPanic ==
    /\ sweep.pc = "panic"
    /\ sweep.out # <<>>

====
